---- MODULE Spec2Model ----
(***************************************************************************)
(* Taxonomic short-code pipeline of taxonomy/taxonomy_utils.py:            *)
(*   generate_taxon_codes -> fix_duplicate_codes (-> final_cleanup),       *)
(* add_missing_elements of 02_data_format/initial_processing/utils.py, and *)
(* the script 05_replicate/01_RemovePrivateData.py.                        *)
(*                                                                         *)
(* A string is a sequence of Unicode code points (32 = space, 48..57 =     *)
(* digits, 65..90 = A..Z, 97..122 = a..z), so that slicing, lower-casing,  *)
(* length and the lexicographic sort order are computed, not assumed.      *)
(* A table (polars DataFrame) is a sequence of rows; a row is a function   *)
(* from column names to values.                                            *)
(***************************************************************************)
EXTENDS Integers, Sequences, FiniteSets, TLC

VARIABLES
    taxon_df,   \* the table the pipeline is working on
    input_df,   \* the table as it was read, never changed
    prev_df,    \* the argument of the most recent call
    history,    \* the calls made so far, ending with the error once one raised
    columns,    \* the column names of taxon_df, in order
    console,    \* what the calls have printed so far
    taxonomy_original,  \* the reference table the update script extends
    visit_codes,        \* add_missing_elements: the site visits to complete
    abiotic_df,         \* add_missing_elements: the recorded covers
    abiotic_query,      \* add_missing_elements: the elements of the database
    final_dataframe,    \* add_missing_elements: the table returned
    project,            \* database table project
    site,               \* database table site
    data_tables,        \* the nine tables of table_list, site_visit included
    site_list,          \* 01_RemovePrivateData: site codes to remove
    site_visit_list     \* 01_RemovePrivateData: site visit codes to remove

\* the variables of add_missing_elements
abiotic_vars == <<visit_codes, abiotic_df, abiotic_query, final_dataframe>>

\* the variables of 01_RemovePrivateData
database_vars == <<project, site, data_tables, site_list, site_visit_list>>

vars == <<taxon_df, input_df, prev_df, history, columns, console,
          taxonomy_original, abiotic_vars, database_vars>>

-----------------------------------------------------------------------------
(* Bounds of the model *)

\* rows of a table with arbitrary codes (SpecResolve)
MaxRows == 3
\* rows of a table of names to be coded (Spec)
MaxGenRows == 2
\* calls of fix_duplicate_codes in one run
MaxRuns == 2
\* rows of a table about to be finalized (SpecCleanup)
MaxCleanRows == 2

-----------------------------------------------------------------------------
(* Values *)

\* polars null: no string is equal to it (code points are naturals)
NULL == <<-1>>

\* pl.lit("MANUAL_REVIEW")
MANUAL_REVIEW == <<77, 65, 78, 85, 65, 76, 95, 82, 69, 86, 73, 69, 87>>

\* the separator of str.splitn(by=" ")
SPACE == 32

\* the non-breaking space final_cleanup replaces
NBSP == 160

\* polars null in an integer column (code_manual is read as Int32)
NULL_INT == -1

\* the columns that are not of dtype String
IntColumns == {"code_manual"}

\* Define columns for final output
FINAL_SCHEMA ==
    <<"taxon_code", "code_manual", "taxon_name", "taxon_author", "taxon_status",
      "taxon_accepted", "taxon_author_accepted", "taxon_family", "taxon_source",
      "taxon_link", "taxon_level", "taxon_category", "taxon_habit",
      "taxon_native", "taxon_non_native", "org">>

\* the names in a list of columns
names_of(cols) == {cols[k] : k \in 1..Len(cols)}

Min(a, b) == IF a <= b THEN a ELSE b

-----------------------------------------------------------------------------
(* polars string expressions *)

\* str.to_lowercase on one code point (ASCII range)
lower_char(c) == IF c >= 65 /\ c <= 90 THEN c + 32 ELSE c

\* .str.to_lowercase()
to_lowercase(s) == IF s = NULL THEN NULL ELSE [i \in 1..Len(s) |-> lower_char(s[i])]

\* .str.splitn(by, n): at most n fields, the last one holding the remainder
RECURSIVE splitn(_, _, _)
splitn(s, by, n) ==
    IF n <= 1 \/ ~(\E i \in 1..Len(s) : s[i] = by)
    THEN <<s>>
    ELSE LET i == CHOOSE k \in 1..Len(s) :
                      s[k] = by /\ \A j \in 1..(k - 1) : s[j] # by
         IN  <<SubSeq(s, 1, i - 1)>> \o splitn(SubSeq(s, i + 1, Len(s)), by, n - 1)

\* a field of the struct splitn returns: null when the name has fewer fields
struct_field(parts, k) == IF k <= Len(parts) THEN parts[k] ELSE NULL

\* taxon_split: lower-cased name split into genus, species, infratype, infraspecies
taxon_split(name) ==
    LET parts == splitn(to_lowercase(name), SPACE, 4)
    IN  [genus        |-> struct_field(parts, 1),
         species      |-> struct_field(parts, 2),
         infratype    |-> struct_field(parts, 3),
         infraspecies |-> struct_field(parts, 4)]

\* .str.slice(0, length)
str_slice(s, length) == IF s = NULL THEN NULL ELSE SubSeq(s, 1, Min(length, Len(s)))

\* fault: concat_str called with ignore_nulls=True
RECURSIVE concat_str_ignore_nulls(_)
concat_str_ignore_nulls(cols) ==
    IF cols = <<>> THEN <<>>
    ELSE IF Head(cols) = NULL THEN concat_str_ignore_nulls(Tail(cols))
    ELSE Head(cols) \o concat_str_ignore_nulls(Tail(cols))

\* pl.concat_str(...): null as soon as one argument is null
RECURSIVE concat_str(_)
concat_str(cols) ==
    IF cols = <<>> THEN <<>>
    ELSE LET rest == concat_str(Tail(cols))
         IN  IF Head(cols) = NULL \/ rest = NULL THEN NULL ELSE Head(cols) \o rest

\* fault: no fallback, only the four-fragment concatenation
coalesce_first_only(a, b) == a

\* pl.coalesce(a, b)
coalesce(a, b) == IF a # NULL THEN a ELSE b

\* fault: the genus-only fragment cut like genus3
genus6_cut3(name) == SubSeq(taxon_split(name).genus, 1,
                            Min(3, Len(taxon_split(name).genus)))

\* fault: the genus fragment of composed codes cut like genus6
genus3_cut6(name) == SubSeq(taxon_split(name).genus, 1,
                            Min(6, Len(taxon_split(name).genus)))

\* the genus-only fragment: genus6
genus6(name) == str_slice(taxon_split(name).genus, 6)

genus3(name) == str_slice(taxon_split(name).genus, 3)

species3(name) == str_slice(taxon_split(name).species, 3)

infratype1(name) == str_slice(taxon_split(name).infratype, 1)

infraspecies3(name) == str_slice(taxon_split(name).infraspecies, 3)

\* the when/then/otherwise that composes taxon_code
taxon_code_of(name) ==
    IF species3(name) = NULL
    THEN genus6(name)
    ELSE coalesce(concat_str(<<genus3(name), species3(name),
                               infratype1(name), infraspecies3(name)>>),
                  concat_str(<<genus3(name), species3(name)>>))

\* fault: a column that exists is not overwritten
with_column_if_absent(row, col, val) ==
    [c \in (DOMAIN row) \cup {col} |-> IF c \in DOMAIN row THEN row[c] ELSE val]

\* with_columns(expr.alias(col)) on one row: adds the column or overwrites it
with_column(row, col, val) ==
    [c \in (DOMAIN row) \cup {col} |-> IF c = col THEN val ELSE row[c]]

\* fault: the null check is left out
generate_raises_column_only(df) ==
    \E i \in 1..Len(df) : "taxon_name" \notin DOMAIN df[i]

\* the two precondition checks of generate_taxon_codes
generate_raises(df) ==
    \/ \E i \in 1..Len(df) : "taxon_name" \notin DOMAIN df[i]
    \/ \E i \in 1..Len(df) : df[i]["taxon_name"] = NULL

\* .drop([...]) on one row
drop(row, cols) == [c \in (DOMAIN row) \ cols |-> row[c]]

\* fault: the lower-cased name is written back to taxon_name
generate_taxon_codes_lowercased(df) ==
    [i \in 1..Len(df) |->
        with_column(with_column(df[i], "taxon_code", taxon_code_of(df[i]["taxon_name"])),
                    "taxon_name", to_lowercase(df[i]["taxon_name"]))]

\* the table generate_taxon_codes returns
generate_taxon_codes(df) ==
    [i \in 1..Len(df) |->
        drop(with_column(df[i], "taxon_code", taxon_code_of(df[i]["taxon_name"])),
             {"taxon_split", "genus6", "genus3", "species3", "infratype1",
              "infraspecies3"})]

-----------------------------------------------------------------------------
(* fix_duplicate_codes *)

\* fault: only neighbouring rows are compared
names_duplicated_adjacent(df) ==
    \E i \in 1..(Len(df) - 1) : df[i]["taxon_name"] = df[i + 1]["taxon_name"]

\* pl.col('taxon_name').is_duplicated().sum() > 0
names_duplicated(df) ==
    \E i, j \in 1..Len(df) : i # j /\ df[i]["taxon_name"] = df[j]["taxon_name"]

\* the order of two strings in a polars sort: lexicographic by code point
RECURSIVE str_less(_, _)
str_less(a, b) ==
    IF b = <<>> THEN FALSE
    ELSE IF a = <<>> THEN TRUE
    ELSE IF a[1] # b[1] THEN a[1] < b[1]
    ELSE str_less(Tail(a), Tail(b))

\* the order of two values of the sort column: nulls first
name_before(a, b) ==
    IF a = NULL THEN b # NULL
    ELSE IF b = NULL THEN FALSE
    ELSE str_less(a, b)

\* fault: the sort is left out and rows keep the caller's order
sort_by_name_omitted(df) == df

\* .sort("taxon_name")
sort_by_name(df) ==
    LET n == Len(df)
        rank(i) == Cardinality({j \in 1..n :
                        \/ name_before(df[j]["taxon_name"], df[i]["taxon_name"])
                        \/ df[j]["taxon_name"] = df[i]["taxon_name"] /\ j < i}) + 1
    IN  [k \in 1..n |-> df[CHOOSE i \in 1..n : rank(i) = k]]

\* pl.col('taxon_code').cum_count().over("taxon_code"): the non-null values of
\* the row's group up to and including the row
counter(sorted, i) ==
    Cardinality({j \in 1..i : /\ sorted[j]["taxon_code"] # NULL
                              /\ sorted[j]["taxon_code"] = sorted[i]["taxon_code"]})

\* .cast(pl.String) of a non-negative integer: its decimal numeral
RECURSIVE cast_string(_)
cast_string(n) ==
    IF n < 10 THEN <<48 + n>>
    ELSE cast_string(n \div 10) \o <<48 + (n % 10)>>

\* .str.len_chars() of a non-null code
code_length(code) == Len(code)

\* pl.col('taxon_code').len().over("taxon_code")
group_length(sorted, i) ==
    Cardinality({j \in 1..Len(sorted) :
                    sorted[j]["taxon_code"] = sorted[i]["taxon_code"]})

\* fault: the length test excludes codes of exactly 6 characters
when_append_counter_below6(gl, code) ==
    code # NULL /\ gl > 1 /\ Len(code) < 6

\* fault: the group test also takes groups of one row
when_append_counter_single(gl, code) ==
    code # NULL /\ gl >= 1 /\ Len(code) <= 6

\* (group_length > 1) & (code_length <= 6); a null code_length makes it null,
\* which when() does not take
when_append_counter(gl, code) ==
    code # NULL /\ gl > 1 /\ code_length(code) <= 6

\* fault: the length test starts one character too late
when_manual_review_above7(gl, code) ==
    code # NULL /\ gl > 1 /\ Len(code) > 7

\* (group_length > 1) & (code_length > 6)
when_manual_review(gl, code) ==
    code # NULL /\ gl > 1 /\ code_length(code) > 6

\* fault: the first row of a group keeps its code, later rows are rewritten
resolved_code_later_rows(sorted, i) ==
    LET code == sorted[i]["taxon_code"]
        gl   == group_length(sorted, i)
    IN  IF counter(sorted, i) <= 1 THEN code
        ELSE IF when_append_counter(gl, code)
        THEN concat_str(<<code, cast_string(counter(sorted, i))>>)
        ELSE IF when_manual_review(gl, code)
        THEN MANUAL_REVIEW
        ELSE code

\* the when/then/when/then/otherwise that rewrites taxon_code
resolved_code(sorted, i) ==
    LET code == sorted[i]["taxon_code"]
        gl   == group_length(sorted, i)
    IN  IF when_append_counter(gl, code)
        THEN concat_str(<<code, cast_string(counter(sorted, i))>>)
        ELSE IF when_manual_review(gl, code)
        THEN MANUAL_REVIEW
        ELSE code

\* fault: the flag is never raised
code_manual_never(code) == 0

\* the when/then/otherwise that populates code_manual
code_manual_of(code) == IF code = MANUAL_REVIEW THEN 1 ELSE 0

\* the table fix_duplicate_codes returns when it does not raise
fix_duplicate_codes(df) ==
    LET sorted == sort_by_name(df)
    IN  [i \in 1..Len(sorted) |->
            drop(with_column(with_column(sorted[i], "taxon_code",
                                         resolved_code(sorted, i)),
                             "code_manual",
                             code_manual_of(resolved_code(sorted, i))),
                 {"counter", "code_length", "group_length"})]

\* what one print call shows: a line of text with the number it formats, or a
\* table
printed(text, number, table) == [text |-> text, number |-> number, table |-> table]

\* .select(["taxon_name", "taxon_code"]) of the rows a filter keeps
select_rows(df, keep(_), cols) ==
    LET kept == SelectSeq(df, keep)
    IN  [k \in 1..Len(kept) |-> [c \in cols |-> kept[k][c]]]

\* fault: rows already flagged for review are not counted as duplicates
code_is_duplicated_unflagged(df, row) ==
    /\ row["taxon_code"] # MANUAL_REVIEW
    /\ Cardinality({j \in 1..Len(df) : df[j]["taxon_code"] = row["taxon_code"]}) > 1

\* pl.col("taxon_code").is_duplicated() on one row
code_is_duplicated(df, row) ==
    Cardinality({j \in 1..Len(df) : df[j]["taxon_code"] = row["taxon_code"]}) > 1

\* pl.col("taxon_name").is_duplicated() on one row
name_is_duplicated(df, row) ==
    Cardinality({j \in 1..Len(df) : df[j]["taxon_name"] = row["taxon_name"]}) > 1

\* fault: nothing is printed when no row needs review
fix_report_warnings_only(processed_df) ==
    LET is_review(row)    == row["taxon_code"] = MANUAL_REVIEW
        is_duplicate(row) == code_is_duplicated(processed_df, row)
        review_needed_infra ==
            select_rows(processed_df, is_review, {"taxon_name", "taxon_code"})
        review_needed_code ==
            select_rows(processed_df, is_duplicate, {"taxon_name", "taxon_code"})
    IN  (IF review_needed_infra # <<>>
         THEN <<printed("Infraspecies duplicates detected; logic undefined.", 0, <<>>),
                printed("", 0, review_needed_infra)>>
         ELSE <<>>)
        \o
        (IF review_needed_code # <<>>
         THEN <<printed("Duplicate values found in 'taxon_code' column.", 0, <<>>),
                printed("", 0, review_needed_code)>>
         ELSE <<>>)

\* the two reports fix_duplicate_codes prints about the table it returns
fix_report(processed_df) ==
    LET is_review(row)    == row["taxon_code"] = MANUAL_REVIEW
        is_duplicate(row) == code_is_duplicated(processed_df, row)
        review_needed_infra ==
            select_rows(processed_df, is_review, {"taxon_name", "taxon_code"})
        review_needed_code ==
            select_rows(processed_df, is_duplicate, {"taxon_name", "taxon_code"})
    IN  (IF review_needed_infra # <<>>
         THEN <<printed("Infraspecies duplicates detected; logic undefined.", 0, <<>>),
                printed("", 0, review_needed_infra)>>
         ELSE <<printed("No infraspecies duplicates found.", 0, <<>>)>>)
        \o
        (IF review_needed_code # <<>>
         THEN <<printed("Duplicate values found in 'taxon_code' column.", 0, <<>>),
                printed("", 0, review_needed_code)>>
         ELSE <<>>)

\* a column the calls of fix_duplicate_codes need is missing
fix_column_missing(cols) ==
    "taxon_name" \notin names_of(cols) \/ "taxon_code" \notin names_of(cols)

\* the columns after with_columns adds those that are new and drop removes some
columns_after(cols, added, dropped) ==
    LET is_kept(c) == c \notin dropped
        is_new(c)  == c \notin names_of(cols)
    IN  SelectSeq(cols \o SelectSeq(added, is_new), is_kept)

-----------------------------------------------------------------------------
(* final_cleanup *)

\* the characters the regex class \s and strip_chars() take for whitespace
is_whitespace(c) == c \in {9, 10, 11, 12, 13, SPACE, 133, NBSP}

\* .str.replace_all(r"\u00A0", " ")
replace_nbsp(s) == [i \in 1..Len(s) |-> IF s[i] = NBSP THEN SPACE ELSE s[i]]

\* .str.replace_all(r"\s+", " ")
RECURSIVE collapse_whitespace(_)
collapse_whitespace(s) ==
    IF s = <<>> THEN <<>>
    ELSE IF is_whitespace(s[1])
    THEN LET n == CHOOSE k \in 1..Len(s) :
                      /\ \A j \in 1..k : is_whitespace(s[j])
                      /\ k = Len(s) \/ ~is_whitespace(s[k + 1])
         IN  <<SPACE>> \o collapse_whitespace(SubSeq(s, n + 1, Len(s)))
    ELSE <<s[1]>> \o collapse_whitespace(Tail(s))

\* fault: only the end of the string is stripped
strip_chars_end(s) ==
    LET black == {k \in 1..Len(s) : ~is_whitespace(s[k])}
    IN  IF black = {} THEN <<>>
        ELSE SubSeq(s, 1, CHOOSE k \in black : \A j \in black : j <= k)

\* .str.strip_chars()
strip_chars(s) ==
    LET black == {k \in 1..Len(s) : ~is_whitespace(s[k])}
    IN  IF black = {} THEN <<>>
        ELSE SubSeq(s, CHOOSE k \in black : \A j \in black : k <= j,
                       CHOOSE k \in black : \A j \in black : j <= k)

\* the expression final_cleanup applies to a String column; null stays null
clean_string(v) ==
    IF v = NULL THEN NULL
    ELSE strip_chars(collapse_whitespace(replace_nbsp(v)))

\* fault: only taxon_name is cleaned
clean_row_name_only(row) ==
    [c \in DOMAIN row |-> IF c = "taxon_name" THEN clean_string(row[c]) ELSE row[c]]

\* with_columns(pl.col(pl.String)...) on one row
clean_row(row) ==
    [c \in DOMAIN row |-> IF c \in IntColumns THEN row[c] ELSE clean_string(row[c])]

\* .is_null() of one cell
is_null(row, c) == IF c \in IntColumns THEN row[c] = NULL_INT ELSE row[c] = NULL

\* fault: only the template columns are looked at
all_null_in_schema(row) ==
    \A c \in (DOMAIN row) \cap names_of(FINAL_SCHEMA) : is_null(row, c)

\* pl.all_horizontal(pl.all().is_null())
all_horizontal_null(row) == \A c \in DOMAIN row : is_null(row, c)

\* .filter(~pl.all_horizontal(pl.all().is_null()))
drop_empty_rows(df) ==
    LET not_empty(row) == ~all_horizontal_null(row)
    IN  SelectSeq(df, not_empty)

\* fault: the rows are left in the order they came in
sort_outcomes_as_given(df) == {df}

\* .sort("taxon_name") where names may repeat: the sort is not stable, so rows
\* of equal name may come out in any order
sort_outcomes(df) ==
    {p \in {[k \in 1..Len(df) |-> df[f[k]]] :
                f \in {g \in [1..Len(df) -> 1..Len(df)] :
                          \A a, b \in 1..Len(df) : a # b => g[a] # g[b]}} :
        \A a, b \in 1..Len(df) :
            a < b => ~name_before(p[b]["taxon_name"], p[a]["taxon_name"])}

\* fault: every column of the input is kept
select_all(df) == df

\* .select(FINAL_SCHEMA)
select_final_schema(df) ==
    [k \in 1..Len(df) |-> [c \in names_of(FINAL_SCHEMA) |-> df[k][c]]]

\* fault: duplicated names are a precondition failure
cleanup_raises_on_duplicates(cols, df) ==
    \/ \E c \in names_of(FINAL_SCHEMA) : c \notin names_of(cols)
    \/ names_duplicated(df)

\* sort and select raise when a column they name is missing
cleanup_raises(cols, df) ==
    \E c \in names_of(FINAL_SCHEMA) \cup {"taxon_name"} : c \notin names_of(cols)

\* the tables final_cleanup may return: cleaned_df
final_cleanup(df) ==
    {select_final_schema(p) :
        p \in sort_outcomes(drop_empty_rows([k \in 1..Len(df) |-> clean_row(df[k])]))}

\* cleaned_df.null_count(): one row, the nulls of each column
null_count(df, cols) ==
    <<[c \in cols |-> Cardinality({k \in 1..Len(df) : is_null(df[k], c)})]>>

\* .null_count() of a table of counts: counts are integers, never null
null_count_of_counts(counts, cols) ==
    <<[c \in cols |-> Cardinality({k \in 1..Len(counts) : counts[k][c] = NULL_INT})]>>

\* .sum_horizontal().item() of a one-row table of counts
RECURSIVE sum_horizontal(_, _)
sum_horizontal(counts, cols) ==
    IF cols = <<>> THEN 0
    ELSE counts[1][Head(cols)] + sum_horizontal(counts, Tail(cols))

\* what final_cleanup prints about the table it returns
cleanup_report(cleaned_df) ==
    LET schema      == names_of(FINAL_SCHEMA)
        total_nulls == sum_horizontal(null_count(cleaned_df, schema), FINAL_SCHEMA)
        null_cols   == null_count(cleaned_df, schema)
        duplicate_mask(row) == \/ code_is_duplicated(cleaned_df, row)
                               \/ name_is_duplicated(cleaned_df, row)
        duplicates_df ==
            select_rows(cleaned_df, duplicate_mask, {"taxon_code", "taxon_name"})
        total_duplicates == Len(duplicates_df)
    IN  (IF total_nulls > 0
         THEN <<printed("WARNING: Null values detected in the dataset.",
                        total_nulls, <<>>),
                printed("", 0, null_count_of_counts(null_cols, schema))>>
         ELSE <<>>)
        \o
        (IF total_duplicates > 0
         THEN <<printed("WARNING: rows with duplicate values detected.",
                        total_duplicates, <<>>),
                printed("", 0, duplicates_df)>>
         ELSE <<>>)

-----------------------------------------------------------------------------
(* Input tables *)

\* names of a table with arbitrary codes: "A", "Aa", "B", "a"
NamePool == {<<65>>, <<65, 97>>, <<66>>, <<97>>}

\* arbitrary codes: "ab", "ab1", "abcdef", "abcdefg"
CodePool == {<<97, 98>>, <<97, 98, 49>>, <<97, 98, 99, 100, 101, 102>>,
             <<97, 98, 99, 100, 101, 102, 103>>}

\* genus tokens: "Be", "Betula", "Betulas"
GenusPool == {<<66, 101>>, <<66, 101, 116, 117, 108, 97>>,
              <<66, 101, 116, 117, 108, 97, 115>>}

\* species tokens: "na", "nana"
SpeciesPool == {<<110, 97>>, <<110, 97, 110, 97>>}

\* infra-rank markers: "var."
InfraTypePool == {<<118, 97, 114, 46>>}

\* infra-epithets: "ex", "exil"
InfraSpeciesPool == {<<101, 120>>, <<101, 120, 105, 108>>}

\* tokens joined by single spaces
RECURSIVE join(_)
join(tokens) ==
    IF Len(tokens) = 1 THEN tokens[1]
    ELSE tokens[1] \o <<SPACE>> \o join(Tail(tokens))

\* names with irregular spacing or a fifth token:
\* "Betula ", "Betula  nana", "Betula nana var. ex il"
IrregularNames ==
    {<<66, 101, 116, 117, 108, 97, 32>>,
     <<66, 101, 116, 117, 108, 97, 32, 32, 110, 97, 110, 97>>,
     <<66, 101, 116, 117, 108, 97, 32, 110, 97, 110, 97, 32, 118, 97, 114, 46,
       32, 101, 120, 32, 105, 108>>}

\* the species tokens of the names that go below species: "nana"
LongSpecies == {s \in SpeciesPool : Len(s) > 3}

\* the scientific names a batch is drawn from
GenNames ==
    GenusPool
    \cup IrregularNames
    \cup {join(<<g, s>>) : g \in GenusPool, s \in SpeciesPool}
    \cup {join(<<g, s, t>>) : g \in GenusPool, s \in LongSpecies, t \in InfraTypePool}
    \cup {join(<<g, s, t, e>>) : g \in GenusPool, s \in LongSpecies,
                                 t \in InfraTypePool, e \in InfraSpeciesPool}

\* a row of the template: the three key columns, taxon_author, and one value
\* shared by the other descriptive columns
template_row(name, code, manual, author, other) ==
    [c \in names_of(FINAL_SCHEMA) |->
        CASE c = "taxon_name"   -> name
          [] c = "taxon_code"   -> code
          [] c = "code_manual"  -> manual
          [] c = "taxon_author" -> author
          [] OTHER              -> other]

\* a descriptive value in good order: "L."
Described == <<76, 46>>

\* rows of an existing table: any name of the pool with any code
ResolveRows ==
    {template_row(n, c, 0, Described, Described) : n \in NamePool, c \in CodePool}

\* a descriptive value as typed: "L." tab space "f." space
Untidy == <<76, 46, 9, 32, 102, 46, 32>>

\* rows of a sheet of taxa to add: a name (possibly missing), no code yet; one
\* row, of the name "Be", has an author that needs cleaning
GenRows ==
    {template_row(n, NULL, 0, Described, Described) : n \in GenNames \cup {NULL}}
    \cup {template_row(<<66, 101>>, NULL, 0, Untidy, Described)}

\* names as a spreadsheet may hold them: missing, "A b", "A" NBSP space "b",
\* and " B" with a leading space
RawNames == {NULL, <<65, 32, 98>>, <<65, NBSP, 32, 98>>, <<32, 66>>}

\* codes of a table about to be finalized: missing or "ab"
RawCodes == {NULL, <<97, 98>>}

\* the remaining cells of a row: all empty, all in good order, or with an
\* author "L." tab space "f." space that needs cleaning
RawFills ==
    {[manual |-> NULL_INT, author |-> NULL, other |-> NULL],
     [manual |-> 0, author |-> Described, other |-> Described],
     [manual |-> 1, author |-> <<76, 46, 9, 32, 102, 46, 32>>, other |-> Described]}

\* rows of a table about to be finalized
CleanupRows ==
    {template_row(n, c, f.manual, f.author, f.other) :
        n \in RawNames, c \in RawCodes, f \in RawFills}

\* the column layouts of a table about to be finalized: the template, the
\* template reversed, reversed with an extra "notes" column, and "org" missing
CleanupLayouts ==
    {FINAL_SCHEMA,
     [k \in 1..Len(FINAL_SCHEMA) |-> FINAL_SCHEMA[Len(FINAL_SCHEMA) + 1 - k]],
     <<"notes">> \o [k \in 1..Len(FINAL_SCHEMA) |->
                        FINAL_SCHEMA[Len(FINAL_SCHEMA) + 1 - k]],
     SubSeq(FINAL_SCHEMA, 1, Len(FINAL_SCHEMA) - 1)}

\* a template row laid out in given columns; an extra column holds "n"
laid_out(row, cols) ==
    [c \in names_of(cols) |-> IF c \in DOMAIN row THEN row[c] ELSE <<110>>]

-----------------------------------------------------------------------------
(* The pipeline *)

Raised ==
    /\ history # <<>>
    /\ history[Len(history)] \in {"ValueError", "ColumnNotFoundError"}

Runs == Cardinality({k \in 1..Len(history) : history[k] = "fix"})

\* generate_taxon_codes(taxon_df)
GenerateTaxonCodes ==
    /\ history = <<>>
    /\ prev_df' = taxon_df
    /\ IF generate_raises(taxon_df)
       THEN /\ history' = <<"generate", "ValueError">>
            /\ UNCHANGED <<taxon_df, columns>>
       ELSE /\ history' = <<"generate">>
            /\ taxon_df' = generate_taxon_codes(taxon_df)
            /\ columns' = columns_after(columns, <<"taxon_code">>,
                              {"taxon_split", "genus6", "genus3", "species3",
                               "infratype1", "infraspecies3"})
    /\ UNCHANGED <<input_df, console, taxonomy_original, abiotic_vars, database_vars>>

\* fix_duplicate_codes(taxon_df)
FixDuplicateCodes ==
    /\ ~Raised
    /\ Runs < MaxRuns
    /\ "cleanup" \notin names_of(history)
    /\ prev_df' = taxon_df
    /\ IF fix_column_missing(columns)
       THEN /\ history' = history \o <<"fix", "ColumnNotFoundError">>
            /\ UNCHANGED <<taxon_df, columns, console>>
       ELSE IF names_duplicated(taxon_df)
       THEN /\ history' = history \o <<"fix", "ValueError">>
            /\ UNCHANGED <<taxon_df, columns, console>>
       ELSE /\ history' = Append(history, "fix")
            /\ taxon_df' = fix_duplicate_codes(taxon_df)
            /\ columns' = columns_after(columns, <<"code_manual">>,
                              {"counter", "code_length", "group_length"})
            /\ console' = console \o fix_report(fix_duplicate_codes(taxon_df))
    /\ UNCHANGED <<input_df, taxonomy_original, abiotic_vars, database_vars>>

\* final_cleanup(taxon_df)
FinalCleanup ==
    /\ ~Raised
    /\ "cleanup" \notin names_of(history)
    /\ prev_df' = taxon_df
    /\ IF cleanup_raises(columns, taxon_df)
       THEN /\ history' = history \o <<"cleanup", "ColumnNotFoundError">>
            /\ UNCHANGED <<taxon_df, columns, console>>
       ELSE /\ history' = Append(history, "cleanup")
            /\ taxon_df' \in final_cleanup(taxon_df)
            /\ columns' = FINAL_SCHEMA
            /\ console' = console \o cleanup_report(taxon_df')
    /\ UNCHANGED <<input_df, taxonomy_original, abiotic_vars, database_vars>>

\* the script finalizes the table fix_duplicate_codes returned
Finalize ==
    /\ history # <<>>
    /\ history[Len(history)] = "fix"
    /\ FinalCleanup

\* the script resolves the sheet once it is coded
ResolveCoded ==
    /\ history # <<>>
    /\ FixDuplicateCodes

\* a sheet of names goes through generate, fix, cleanup
Next == GenerateTaxonCodes \/ ResolveCoded \/ Finalize

\* a table that carries codes goes through fix, cleanup
NextResolve == FixDuplicateCodes \/ Finalize

\* no call of add_missing_elements is under way
NoAbiotic ==
    /\ visit_codes = <<>>
    /\ abiotic_df = <<>>
    /\ abiotic_query = <<>>
    /\ final_dataframe = <<>>

\* no database is connected
NoDatabase ==
    /\ project = {}
    /\ site = {}
    /\ data_tables = <<>>
    /\ site_list = <<>>
    /\ site_visit_list = <<>>

\* a sheet of names to be coded, or a sheet without the taxon_name column
Init ==
    /\ \E n \in 1..MaxGenRows :
          \/ /\ taxon_df \in [1..n -> GenRows]
             /\ columns = FINAL_SCHEMA
          \/ /\ taxon_df \in [1..n -> {drop(r, {"taxon_name"}) : r \in GenRows}]
             /\ columns = columns_after(FINAL_SCHEMA, <<>>, {"taxon_name"})
    /\ input_df = taxon_df
    /\ prev_df = taxon_df
    /\ history = <<>>
    /\ console = <<>>
    /\ taxonomy_original = <<>>
    /\ NoAbiotic
    /\ NoDatabase

\* a table that already carries codes
InitResolve ==
    /\ \E n \in 1..MaxRows : taxon_df \in [1..n -> ResolveRows]
    /\ columns = FINAL_SCHEMA
    /\ input_df = taxon_df
    /\ prev_df = taxon_df
    /\ history = <<>>
    /\ console = <<>>
    /\ taxonomy_original = <<>>
    /\ NoAbiotic
    /\ NoDatabase

\* a table about to be finalized, in any of the layouts
InitCleanup ==
    /\ columns \in CleanupLayouts
    /\ \E n \in 1..MaxCleanRows :
          taxon_df \in [1..n -> {laid_out(r, columns) : r \in CleanupRows}]
    /\ input_df = taxon_df
    /\ prev_df = taxon_df
    /\ history = <<>>
    /\ console = <<>>
    /\ taxonomy_original = <<>>
    /\ NoAbiotic
    /\ NoDatabase

Spec == Init /\ [][Next]_vars

SpecResolve == InitResolve /\ [][NextResolve]_vars

SpecCleanup == InitCleanup /\ [][FinalCleanup]_vars

-----------------------------------------------------------------------------
(* The update workflow of taxonomy_updates_20260210.py *)

\* rows of the reference table (SpecUpdate)
MaxRefRows == 2

\* rows of the reference table, already resolved: "Betula nana" betnan,
\* "Betula nana var. exil" betnanvexi, "Betula" betula, and "Aa" with the
\* hand-made code aaxx and code_manual = 1
ReferenceRows ==
    {template_row(join(<<<<66, 101, 116, 117, 108, 97>>, <<110, 97, 110, 97>>>>),
                  <<98, 101, 116, 110, 97, 110>>, 0, Described, Described),
     template_row(join(<<<<66, 101, 116, 117, 108, 97>>, <<110, 97, 110, 97>>,
                         <<118, 97, 114, 46>>, <<101, 120, 105, 108>>>>),
                  <<98, 101, 116, 110, 97, 110, 118, 101, 120, 105>>, 0,
                  Described, Described),
     template_row(<<66, 101, 116, 117, 108, 97>>, <<98, 101, 116, 117, 108, 97>>, 0,
                  Described, Described),
     template_row(<<65, 97>>, <<97, 97, 120, 120>>, 1, Described, Described)}

\* rows of the sheet of taxa to add: "Betulas nana", "Betulas nana var. exil"
\* and "Be" without a code, and "Be" with the code "zz" typed in
SheetRows ==
    {template_row(n, NULL, 0, Described, Described) :
        n \in {join(<<<<66, 101, 116, 117, 108, 97, 115>>, <<110, 97, 110, 97>>>>),
               join(<<<<66, 101, 116, 117, 108, 97, 115>>, <<110, 97, 110, 97>>,
                      <<118, 97, 114, 46>>, <<101, 120, 105, 108>>>>),
               <<66, 101>>}}
    \cup {template_row(<<66, 101>>, <<122, 122>>, 0, Described, Described)}

\* a reference table of distinct rows and a sheet of taxa to add
InitUpdate ==
    /\ \E n \in 1..MaxRefRows :
          taxonomy_original \in
              {t \in [1..n -> ReferenceRows] : \A a, b \in 1..n : a # b => t[a] # t[b]}
    /\ \E n \in 1..MaxGenRows : taxon_df \in [1..n -> SheetRows]
    /\ columns = FINAL_SCHEMA
    /\ input_df = taxon_df
    /\ prev_df = taxon_df
    /\ history = <<>>
    /\ console = <<>>
    /\ NoAbiotic
    /\ NoDatabase

\* taxonomy_original.extend(yukon_codes): the table handed on is the reference
\* table followed by the coded sheet; taxonomy_original keeps the table as read
Extend ==
    /\ history = <<"generate">>
    /\ history' = <<"generate", "extend">>
    /\ prev_df' = taxon_df
    /\ taxon_df' = taxonomy_original \o taxon_df
    /\ UNCHANGED <<input_df, columns, console, taxonomy_original,
                   abiotic_vars, database_vars>>

\* tx.fix_duplicate_codes(taxonomy_original) on the extended table
ResolveExtended ==
    /\ Len(history) >= 2
    /\ history[2] = "extend"
    /\ FixDuplicateCodes

NextUpdate == GenerateTaxonCodes \/ Extend \/ ResolveExtended

SpecUpdate == InitUpdate /\ [][NextUpdate]_vars

-----------------------------------------------------------------------------
(* add_missing_elements *)

\* rows of abiotic_df (SpecAbiotic)
MaxAbioticRows == 2

\* final_columns
final_columns == {"site_visit_code", "abiotic_element", "abiotic_top_cover_percent"}

\* .select(final_columns) on one row
select_final_columns(row) == [c \in final_columns |-> row[c]]

\* .filter(pl.col("site_visit_code") == visit_code), each row kept with its
\* position in abiotic_df
subset_cover(df, visit_code) ==
    LET at(k)  == [row |-> select_final_columns(df[k]), at |-> k]
        of_visit(r) == r.row["site_visit_code"] = visit_code
    IN  SelectSeq([k \in 1..Len(df) |-> at(k)], of_visit)

\* fault: the elements present are taken from the whole of abiotic_df
elements_missing_any_visit(df, visit_code, query) ==
    LET elements_present == {df[k]["abiotic_element"] : k \in 1..Len(df)}
        is_missing(q) == q["ground_element"] \notin elements_present
    IN  IF df = <<>> THEN query ELSE SelectSeq(query, is_missing)

\* the rows of abiotic_query for the elements not recorded at the visit
elements_missing(df, visit_code, query) ==
    LET subset == subset_cover(df, visit_code)
        elements_present ==
            {subset[k].row["abiotic_element"] : k \in 1..Len(subset)}
        is_missing(q) == q["ground_element"] \notin elements_present
    IN  IF Len(subset) = 0 THEN query ELSE SelectSeq(query, is_missing)

\* with_columns(lit(0.0), lit(visit_code)).rename(...).select(final_columns)
\* on the missing elements; these rows come from no row of abiotic_df
assign_zero_cover(missing, visit_code) ==
    [k \in 1..Len(missing) |->
        [row |-> [site_visit_code |-> visit_code,
                  abiotic_element |-> missing[k]["ground_element"],
                  abiotic_top_cover_percent |-> 0],
         at |-> 0]]

\* pl.concat([subset_cover, elements_missing]) of one visit
final_subset(df, visit_code, query) ==
    subset_cover(df, visit_code)
        \o assign_zero_cover(elements_missing(df, visit_code, query), visit_code)

\* pl.concat(results) over the visits of the loop
RECURSIVE concat_results(_, _, _)
concat_results(visits, df, query) ==
    IF visits = <<>> THEN <<>>
    ELSE final_subset(df, Head(visits), query)
             \o concat_results(Tail(visits), df, query)

\* .round(decimals=2) of a cover given in thousandths of a percent: the
\* nearest hundredth; a value half-way between two hundredths goes up or down
\* depending on its binary representation and the library's rounding mode
round_2(x) ==
    IF x % 10 = 5 THEN {x - 5, x + 5}
    ELSE IF x % 10 < 5 THEN {x - (x % 10)}
    ELSE {x + 10 - (x % 10)}

\* the order of two rows in .sort(by=["site_visit_code", "abiotic_element"])
key_before(a, b) ==
    \/ str_less(a["site_visit_code"], b["site_visit_code"])
    \/ /\ a["site_visit_code"] = b["site_visit_code"]
       /\ str_less(a["abiotic_element"], b["abiotic_element"])

\* the sort is not stable: rows of equal key come out in an order tie, a
\* ranking of the rows of abiotic_df (rows of equal key that come from no row
\* or from one row of abiotic_df are equal)
sort_by_visit_element(rows, tie) ==
    LET n == Len(rows)
        same_key(a, b) == ~key_before(a, b) /\ ~key_before(b, a)
        tie_of(r) == IF r.at = 0 THEN 0 ELSE tie[r.at]
        rank(i) == Cardinality({j \in 1..n :
                        \/ key_before(rows[j].row, rows[i].row)
                        \/ /\ same_key(rows[j].row, rows[i].row)
                           /\ \/ tie_of(rows[j]) < tie_of(rows[i])
                              \/ tie_of(rows[j]) = tie_of(rows[i]) /\ j < i}) + 1
    IN  [k \in 1..n |-> rows[CHOOSE i \in 1..n : rank(i) = k]]

\* pl.concat(results) raises on an empty list of results
add_missing_raises(visits) == visits = <<>>

\* the tables add_missing_elements may return: final_dataframe
add_missing_elements(visits, df, query) ==
    LET results == concat_results(visits, df, query)
        n       == Len(df)
        ties    == {t \in [1..n -> 1..n] : \A a, b \in 1..n : a # b => t[a] # t[b]}
        cover(k) == results[k].row["abiotic_top_cover_percent"]
        least(S)    == CHOOSE x \in S : \A y \in S : x <= y
        greatest(S) == CHOOSE x \in S : \A y \in S : y <= x
        halfway == {k \in 1..Len(results) : Cardinality(round_2(cover(k))) > 1}
        rounded == {[k \in 1..Len(results) |->
                        IF k \in up THEN greatest(round_2(cover(k)))
                        ELSE least(round_2(cover(k)))] : up \in SUBSET halfway}
    IN  {[k \in 1..Len(results) |->
             sort_by_visit_element(
                 [j \in 1..Len(results) |->
                     [row |-> [results[j].row EXCEPT
                                  !["abiotic_top_cover_percent"] = f[j]],
                      at  |-> results[j].at]], t)[k].row] :
         t \in ties, f \in rounded}

\* site visit codes: "A", "B"
VisitPool == {<<65>>, <<66>>}

\* the elements of the database: "r", "s"
ElementPool == {<<114>>, <<115>>}

\* covers in thousandths of a percent: 12.344, 12.345, 50
CoverPool == {12344, 12345, 50000}

\* rows of abiotic_df: a visit, an element of the database, a cover
AbioticRows ==
    {[site_visit_code |-> v, abiotic_element |-> e, abiotic_top_cover_percent |-> c] :
        v \in VisitPool, e \in ElementPool, c \in CoverPool}

\* lists without repetition over a set, of at most two members
ListsOf(S) ==
    {<<>>} \cup {<<a>> : a \in S}
           \cup {l \in {<<a, b>> : a \in S, b \in S} : l[1] # l[2]}

\* nothing of the taxonomy pipeline is under way
NoTaxonomy ==
    /\ taxon_df = <<>>
    /\ input_df = <<>>
    /\ prev_df = <<>>
    /\ columns = <<>>
    /\ console = <<>>
    /\ taxonomy_original = <<>>

\* a list of unique site visits, the recorded covers, the elements queried
InitAbiotic ==
    /\ visit_codes \in ListsOf(VisitPool)
    /\ \E n \in 0..MaxAbioticRows : abiotic_df \in [1..n -> AbioticRows]
    /\ abiotic_query \in {[k \in 1..Len(l) |-> [ground_element |-> l[k]]] :
                            l \in ListsOf(ElementPool)}
    /\ final_dataframe = <<>>
    /\ history = <<>>
    /\ NoTaxonomy
    /\ NoDatabase

\* add_missing_elements(visit_codes, abiotic_df, abiotic_query)
AddMissingElements ==
    /\ history = <<>>
    /\ IF add_missing_raises(visit_codes)
       THEN /\ history' = <<"add_missing_elements", "ValueError">>
            /\ UNCHANGED final_dataframe
       ELSE /\ history' = <<"add_missing_elements">>
            /\ final_dataframe' \in
                   add_missing_elements(visit_codes, abiotic_df, abiotic_query)
    /\ UNCHANGED <<visit_codes, abiotic_df, abiotic_query>>
    /\ UNCHANGED <<taxon_df, input_df, prev_df, columns, console,
                   taxonomy_original, database_vars>>

SpecAbiotic == InitAbiotic /\ [][AddMissingElements]_vars

-----------------------------------------------------------------------------
(* 01_RemovePrivateData *)

\* site visits of the database (SpecRemove)
MaxVisits == 2

\* Define table list
table_list ==
    <<"soil_horizons", "soil_metrics", "environment", "shrub_structure",
      "tree_structure", "ground_cover", "abiotic_top_cover", "vegetation_cover",
      "site_visit">>

\* SELECT site_code FROM site LEFT JOIN project ... WHERE project.private IS TRUE
site_query(sites, projects) ==
    {s.site_code : s \in {t \in sites :
        \E p \in projects : /\ p.project_code = t.establishing_project_code
                            /\ p.private = "TRUE"}}

\* SELECT site_visit_code FROM site_visit LEFT JOIN project ...
\* WHERE project.private IS TRUE
site_visit_query(visits, projects) ==
    {v.site_visit_code : v \in {t \in visits :
        \E p \in projects : /\ p.project_code = t.project_code
                            /\ p.private = "TRUE"}}

\* str(list)[1:-1] of an empty list is the empty string, and IN () is a syntax
\* error of the database, which cursor.execute raises
in_list_raises(list) == list = {}

\* DELETE FROM table WHERE site_visit_code IN (list)
delete_by_site_visit(rows, list) == {r \in rows : r.site_visit_code \notin list}

\* DELETE FROM site WHERE site_code IN (list)
delete_by_site(rows, list) == {r \in rows : r.site_code \notin list}

\* DELETE FROM project WHERE private IS TRUE
delete_private(rows) == {r \in rows : r.private # "TRUE"}

\* a site visit that stays refers to a site the statement would delete ('site
\* code' in Site Visit table references Site table)
site_is_referenced(visits, list) == \E v \in visits : v.site_code \in list

\* the script stopped on an error of the database
Failed ==
    /\ history # <<>>
    /\ history[Len(history)] \in {"SyntaxError", "ForeignKeyViolation"}

\* project codes
ProjectPool == {"p1", "p2"}

\* site codes
SitePool == {"s1", "s2"}

\* the values of project.private
PrivatePool == {"TRUE", "FALSE", "NULL"}

\* a database that holds two projects, two sites and up to MaxVisits site
\* visits, each with a row in every data table or in none
InitRemove ==
    /\ \E private \in [ProjectPool -> PrivatePool] :
          project = {[project_code |-> p, private |-> private[p]] : p \in ProjectPool}
    /\ \E establishing \in [SitePool -> ProjectPool] :
          site = {[site_code |-> s, establishing_project_code |-> establishing[s]] :
                     s \in SitePool}
    /\ \E n \in 0..MaxVisits :
          \E of \in [1..n -> ProjectPool], at \in [1..n -> SitePool],
             recorded \in {{}, 1..n} :
              data_tables =
                  [t \in names_of(table_list) |->
                      IF t = "site_visit"
                      THEN {[site_visit_code |-> k, project_code |-> of[k],
                             site_code |-> at[k]] : k \in 1..n}
                      ELSE {[site_visit_code |-> k] : k \in recorded}]
    /\ input_df = [project |-> project, site |-> site,
                   site_visit |-> data_tables["site_visit"]]
    /\ site_list = {}
    /\ site_visit_list = {}
    /\ history = <<>>
    /\ taxon_df = <<>>
    /\ prev_df = <<>>
    /\ columns = <<>>
    /\ console = <<>>
    /\ taxonomy_original = <<>>
    /\ NoAbiotic

\* IDENTIFY PRIVATE SITES AND SITE VISITS
QueryPrivate ==
    /\ history = <<>>
    /\ site_list' = site_query(site, project)
    /\ site_visit_list' = site_visit_query(data_tables["site_visit"], project)
    /\ history' = <<"query">>
    /\ UNCHANGED <<project, site, data_tables>>
    /\ UNCHANGED <<taxon_df, input_df, prev_df, columns, console,
                   taxonomy_original, abiotic_vars>>

\* REMOVE DATA FROM CORE TABLES: one iteration of the loop over table_list
RemoveFromTable ==
    /\ ~Failed
    /\ Len(history) \in 1..Len(table_list)
    /\ LET table == table_list[Len(history)]
       IN  IF in_list_raises(site_visit_list)
           THEN /\ history' = history \o <<table, "SyntaxError">>
                /\ UNCHANGED data_tables
           ELSE /\ history' = Append(history, table)
                /\ data_tables' =
                       [data_tables EXCEPT
                           ![table] = delete_by_site_visit(@, site_visit_list)]
    /\ UNCHANGED <<project, site, site_list, site_visit_list>>
    /\ UNCHANGED <<taxon_df, input_df, prev_df, columns, console,
                   taxonomy_original, abiotic_vars>>

\* REMOVE DATA FROM SITE TABLE; the schema is not part of the scripts, so a
\* site that a remaining site visit refers to is either refused or deleted
RemoveFromSite ==
    /\ ~Failed
    /\ Len(history) = Len(table_list) + 1
    /\ IF in_list_raises(site_list)
       THEN /\ history' = history \o <<"site", "SyntaxError">>
            /\ UNCHANGED site
       ELSE \/ /\ site_is_referenced(data_tables["site_visit"], site_list)
               /\ history' = history \o <<"site", "ForeignKeyViolation">>
               /\ UNCHANGED site
            \/ /\ history' = Append(history, "site")
               /\ site' = delete_by_site(site, site_list)
    /\ UNCHANGED <<project, data_tables, site_list, site_visit_list>>
    /\ UNCHANGED <<taxon_df, input_df, prev_df, columns, console,
                   taxonomy_original, abiotic_vars>>

\* REMOVE DATA FROM PROJECT TABLE
RemoveFromProject ==
    /\ ~Failed
    /\ Len(history) = Len(table_list) + 2
    /\ history' = Append(history, "project")
    /\ project' = delete_private(project)
    /\ UNCHANGED <<site, data_tables, site_list, site_visit_list>>
    /\ UNCHANGED <<taxon_df, input_df, prev_df, columns, console,
                   taxonomy_original, abiotic_vars>>

NextRemove == QueryPrivate \/ RemoveFromTable \/ RemoveFromSite \/ RemoveFromProject

SpecRemove == InitRemove /\ [][NextRemove]_vars

-----------------------------------------------------------------------------
(* Vocabulary of the properties *)

\* the last call was fix_duplicate_codes and it returned a table
FixReturned == history # <<>> /\ history[Len(history)] = "fix"

\* the row of a table that carries a name (names are unique where this is used)
RowOf(df, name) == df[CHOOSE i \in 1..Len(df) : df[i]["taxon_name"] = name]

\* the rows of a table that share their code with a given row, that row included
CodeGroup(df, i) == {j \in 1..Len(df) : df[j]["taxon_code"] = df[i]["taxon_code"]}

\* whitespace in the sense of the specification's tokens (and of the regex \s)
IsWhitespace(c) == c \in {9, 10, 11, 12, 13, 32, 160}

\* the whitespace-delimited tokens of a name
RECURSIVE Tokens(_)
Tokens(s) ==
    IF s = <<>> THEN <<>>
    ELSE IF IsWhitespace(s[1]) THEN Tokens(Tail(s))
    ELSE LET n == CHOOSE k \in 1..Len(s) :
                      /\ \A j \in 1..k : ~IsWhitespace(s[j])
                      /\ k = Len(s) \/ IsWhitespace(s[k + 1])
         IN  <<SubSeq(s, 1, n)>> \o Tokens(SubSeq(s, n + 1, Len(s)))

\* a name made of one to four tokens separated by single spaces
Regular(name) ==
    /\ name # NULL
    /\ Tokens(name) # <<>>
    /\ Len(Tokens(name)) <= 4
    /\ name = join(Tokens(name))

\* the lower-cased first n characters of a token
Fragment(token, n) ==
    [i \in 1..Min(n, Len(token)) |-> lower_char(token[i])]

\* generate_taxon_codes then fix_duplicate_codes have run, in that order
GeneratedThenFixed == history = <<"generate", "fix">>

-----------------------------------------------------------------------------
(* Properties *)

\* C1: after fix_duplicate_codes returns on a table of pairwise distinct names
\* with arbitrary codes, two distinct output rows that are not flagged
\* (code_manual = 0) have different codes.
C1_UnflaggedCodesDistinct ==
    history = <<"fix">> =>
        \A i, j \in 1..Len(taxon_df) :
            (/\ i # j
             /\ taxon_df[i]["code_manual"] = 0
             /\ taxon_df[j]["code_manual"] = 0)
            => taxon_df[i]["taxon_code"] # taxon_df[j]["taxon_code"]

\* C2: fix_duplicate_codes is idempotent on its own output: the second call
\* leaves every name with the code the first call gave it.
C2_IdempotentOnOutput ==
    history = <<"fix", "fix">> =>
        \A i \in 1..Len(taxon_df) :
            taxon_df[i]["taxon_code"]
                = RowOf(prev_df, taxon_df[i]["taxon_name"])["taxon_code"]

\* C3: in every group of k >= 2 rows sharing one code c of at most 6 characters
\* (exactly 6 included), the row whose name is i-th in ascending name order gets
\* c followed by the decimal numeral of i, and i ranges over exactly 1..k.
NameRank(df, i) ==
    1 + Cardinality({j \in CodeGroup(df, i) :
                        name_before(df[j]["taxon_name"], df[i]["taxon_name"])})

C3_ShortGroupsNumbered ==
    FixReturned =>
        \A i \in 1..Len(prev_df) :
            LET c == prev_df[i]["taxon_code"]
                k == Cardinality(CodeGroup(prev_df, i))
            IN  (c # NULL /\ Len(c) <= 6 /\ k >= 2) =>
                    /\ RowOf(taxon_df, prev_df[i]["taxon_name"])["taxon_code"]
                           = c \o cast_string(NameRank(prev_df, i))
                    /\ {NameRank(prev_df, j) : j \in CodeGroup(prev_df, i)} = 1..k

\* a group of a 6-character code was numbered, its rows given out of name order
C3_Witness ==
    /\ FixReturned
    /\ \E i, j \in 1..Len(prev_df) :
          /\ i < j
          /\ prev_df[i]["taxon_code"] = prev_df[j]["taxon_code"]
          /\ Len(prev_df[i]["taxon_code"]) = 6
          /\ name_before(prev_df[j]["taxon_name"], prev_df[i]["taxon_name"])
          /\ RowOf(taxon_df, prev_df[j]["taxon_name"])["taxon_code"]
                 = prev_df[j]["taxon_code"] \o <<49>>

C6_UniqueCodesKept ==
    FixReturned =>
        \A i \in 1..Len(prev_df) :
            CodeGroup(prev_df, i) = {i} =>
                RowOf(taxon_df, prev_df[i]["taxon_name"])["taxon_code"]
                    = prev_df[i]["taxon_code"]

\* a row with a code of its own kept it while a colliding pair was rewritten
C6_Witness ==
    /\ FixReturned
    /\ \E i, j \in 1..Len(prev_df) :
          /\ CodeGroup(prev_df, i) = {i}
          /\ prev_df[i]["taxon_code"] # NULL
          /\ Len(prev_df[i]["taxon_code"]) <= 6
          /\ Cardinality(CodeGroup(prev_df, j)) >= 2
          /\ RowOf(taxon_df, prev_df[j]["taxon_name"])["taxon_code"]
                 # prev_df[j]["taxon_code"]
          /\ RowOf(taxon_df, prev_df[i]["taxon_name"])["taxon_code"]
                 = prev_df[i]["taxon_code"]

\* C7: the result depends only on the set of input rows: every permutation of
\* the input table yields the same rows, in the same order, with the same
\* taxon_code and code_manual.
RowOrders(df) ==
    {[i \in 1..Len(df) |-> df[f[i]]] :
        f \in {g \in [1..Len(df) -> 1..Len(df)] :
                  \A a, b \in 1..Len(df) : a # b => g[a] # g[b]}}

C7_OrderIndependent ==
    history = <<"fix">> =>
        \A p \in RowOrders(input_df) : fix_duplicate_codes(p) = taxon_df

\* a table given out of name order was resolved and a group in it numbered
C7_Witness ==
    /\ history = <<"fix">>
    /\ \E i, j \in 1..Len(input_df) :
          /\ i < j
          /\ name_before(input_df[j]["taxon_name"], input_df[i]["taxon_name"])
          /\ input_df[i]["taxon_code"] = input_df[j]["taxon_code"]
          /\ taxon_df[1]["taxon_code"] # input_df[1]["taxon_code"]

\* C5 as stated: of the names coded by generate_taxon_codes, only colliding
\* names without a species token are numbered; two or more names that each have
\* a species token and receive the same generated code are flagged
\* "MANUAL_REVIEW" with code_manual = 1 instead of being numbered.
C5_SpeciesCollisionsFlagged ==
    GeneratedThenFixed =>
        \A i \in 1..Len(prev_df) :
            LET name == prev_df[i]["taxon_name"]
                out  == RowOf(taxon_df, name)
            IN  /\ out["taxon_code"] # prev_df[i]["taxon_code"]
                   /\ out["taxon_code"] # MANUAL_REVIEW
                   => Len(Tokens(name)) = 1
                /\ (/\ Len(Tokens(name)) >= 2
                    /\ \E j \in CodeGroup(prev_df, i) :
                          j # i /\ Len(Tokens(prev_df[j]["taxon_name"])) >= 2)
                   => out["taxon_code"] = MANUAL_REVIEW /\ out["code_manual"] = 1

\* C5 amended: colliding names are numbered whenever the generated code they
\* share has at most 6 characters, names with a species token included; they
\* are flagged "MANUAL_REVIEW" with code_manual = 1 exactly when the generated
\* code they share is longer than 6 characters.
C5_LengthDecidesNumbering ==
    GeneratedThenFixed =>
        \A i \in 1..Len(prev_df) :
            LET c   == prev_df[i]["taxon_code"]
                k   == Cardinality(CodeGroup(prev_df, i))
                out == RowOf(taxon_df, prev_df[i]["taxon_name"])
            IN  /\ (k >= 2 /\ Len(c) <= 6) =>
                       /\ out["taxon_code"] = c \o cast_string(NameRank(prev_df, i))
                       /\ out["code_manual"] = 0
                /\ (k >= 2 /\ Len(c) > 6) <=>
                       (out["taxon_code"] = MANUAL_REVIEW /\ out["code_manual"] = 1)
                /\ out["code_manual"] = 1 <=> out["taxon_code"] = MANUAL_REVIEW

\* two names with a species token shared a generated 6-character code and
\* were numbered, not flagged
C5_Witness ==
    /\ GeneratedThenFixed
    /\ Len(prev_df) = 2
    /\ Len(Tokens(prev_df[1]["taxon_name"])) = 2
    /\ Len(Tokens(prev_df[2]["taxon_name"])) = 2
    /\ prev_df[1]["taxon_code"] = prev_df[2]["taxon_code"]
    /\ Len(prev_df[1]["taxon_code"]) = 6
    /\ \A i \in 1..2 : taxon_df[i]["code_manual"] = 0
    /\ taxon_df[1]["taxon_code"] = prev_df[1]["taxon_code"] \o <<49>>

FirstFourTokens(name) ==
    LET t == Tokens(name)
    IN  [k \in 1..Min(4, Len(t)) |-> to_lowercase(t[k])]

\* C11: the code is determined by the first four whitespace-delimited tokens of
\* the lower-cased name: two names with the same first four tokens, differing
\* only in whitespace or in text after the fourth token, get the same code.
C11_CodeFromFirstFourTokens ==
    history = <<"generate">> =>
        \A i, j \in 1..Len(taxon_df) :
            FirstFourTokens(taxon_df[i]["taxon_name"])
                = FirstFourTokens(taxon_df[j]["taxon_name"])
            => taxon_df[i]["taxon_code"] = taxon_df[j]["taxon_code"]

\* C12: every code generate_taxon_codes produces is at least 6 characters long.
C12_CodeAtLeastSix ==
    history = <<"generate">> =>
        \A i \in 1..Len(taxon_df) : Len(taxon_df[i]["taxon_code"]) >= 6

-----------------------------------------------------------------------------
(* Vocabulary of the finalizer's properties *)

\* the last call was final_cleanup and it returned a table
CleanupReturned == history # <<>> /\ history[Len(history)] = "cleanup"

\* a string with every whitespace run replaced by one space, then trimmed
Normalized(v) ==
    IF v = NULL THEN NULL
    ELSE IF Tokens(v) = <<>> THEN <<>>
    ELSE join(Tokens(v))

\* a row with its strings normalized, projected on the template columns
NormalizedRow(row) ==
    [c \in names_of(FINAL_SCHEMA) |->
        IF c = "code_manual" THEN row[c] ELSE Normalized(row[c])]

\* a row that is null in every column it has
EntirelyNull(row) ==
    \A c \in DOMAIN row :
        IF c = "code_manual" THEN row[c] = NULL_INT ELSE row[c] = NULL

\* the input table has every column of the template
HasTemplateColumns(df) == names_of(FINAL_SCHEMA) \subseteq DOMAIN df[1]

\* the null cells of a table in the template columns
NullCells(df) ==
    {<<k, c>> \in (1..Len(df)) \X names_of(FINAL_SCHEMA) :
        IF c = "code_manual" THEN df[k][c] = NULL_INT ELSE df[k][c] = NULL}

-----------------------------------------------------------------------------
(* Properties of the pipeline's preconditions and of the finalizer *)

\* C13: generate_taxon_codes raises when the table has no taxon_name column or
\* when a name is null, the column check first; it then derives no code and
\* leaves the table as it was. Otherwise it returns.
C13_GenerateFailsFast ==
    history \in {<<"generate">>, <<"generate", "ValueError">>} =>
        LET malformed ==
                IF "taxon_name" \notin DOMAIN prev_df[1] THEN TRUE
                ELSE \E i \in 1..Len(prev_df) : prev_df[i]["taxon_name"] = NULL
        IN  IF malformed
            THEN /\ history = <<"generate", "ValueError">>
                 /\ taxon_df = prev_df
                 /\ taxon_df = input_df
                 /\ \A i \in 1..Len(taxon_df) : taxon_df[i]["taxon_code"] = NULL
            ELSE history = <<"generate">>

\* a sheet whose second name is null was refused, the first row left uncoded
C13_Witness ==
    /\ history = <<"generate", "ValueError">>
    /\ Len(prev_df) = 2
    /\ "taxon_name" \in DOMAIN prev_df[1]
    /\ prev_df[1]["taxon_name"] # NULL
    /\ prev_df[2]["taxon_name"] = NULL
    /\ taxon_df[1]["taxon_code"] = NULL

\* C14: on a table with taxon_name and taxon_code columns, fix_duplicate_codes
\* raises exactly when a name occurs in more than one row, and then changes
\* nothing; with unique names it returns, whatever the codes are.
C14_RaisesIffNamesRepeat ==
    LET n == Len(history)
        returned == n >= 1 /\ history[n] = "fix"
        raised == n >= 2 /\ history[n - 1] = "fix" /\ history[n] = "ValueError"
        repeated ==
            \E i, j \in 1..Len(prev_df) :
                i # j /\ prev_df[i]["taxon_name"] = prev_df[j]["taxon_name"]
    IN  (returned \/ raised) =>
            IF repeated THEN raised /\ taxon_df = prev_df ELSE returned

\* a table with a repeated name and colliding codes was refused unchanged
C14_Witness ==
    /\ history = <<"fix", "ValueError">>
    /\ Len(prev_df) = 3
    /\ prev_df[1]["taxon_name"] = prev_df[3]["taxon_name"]
    /\ prev_df[1]["taxon_name"] # prev_df[2]["taxon_name"]
    /\ prev_df[1]["taxon_code"] = prev_df[2]["taxon_code"]
    /\ taxon_df = prev_df

\* C15: when generate_taxon_codes, fix_duplicate_codes and final_cleanup have
\* all returned, the names of the final table are pairwise distinct.
C15_FinalNamesDistinct ==
    history = <<"generate", "fix", "cleanup">> =>
        \A i, j \in 1..Len(taxon_df) :
            i # j => taxon_df[i]["taxon_name"] # taxon_df[j]["taxon_name"]

\* C16: after generate_taxon_codes then fix_duplicate_codes every row has a
\* non-null code or is marked code_manual = 1, and a row of a collision the
\* automatic rule does not resolve (a shared code longer than 6 characters) does
\* not keep its derived code unflagged.
C16_CodedOrFlagged ==
    GeneratedThenFixed =>
        \A i \in 1..Len(taxon_df) :
            LET before == RowOf(prev_df, taxon_df[i]["taxon_name"])
                unresolved ==
                    /\ before["taxon_code"] # NULL
                    /\ Len(before["taxon_code"]) > 6
                    /\ \E j \in 1..Len(prev_df) :
                          /\ prev_df[j]["taxon_name"] # before["taxon_name"]
                          /\ prev_df[j]["taxon_code"] = before["taxon_code"]
            IN  /\ taxon_df[i]["taxon_code"] # NULL \/ taxon_df[i]["code_manual"] = 1
                /\ unresolved =>
                       /\ taxon_df[i]["code_manual"] = 1
                       /\ taxon_df[i]["taxon_code"] # before["taxon_code"]

\* a sheet of two names with one generated code of more than 6 characters came
\* out with both rows flagged
C16_Witness ==
    /\ GeneratedThenFixed
    /\ Len(taxon_df) = 2
    /\ prev_df[1]["taxon_code"] = prev_df[2]["taxon_code"]
    /\ Len(prev_df[1]["taxon_code"]) > 6
    /\ \A i \in 1..2 : taxon_df[i]["code_manual"] = 1

\* C17: the table final_cleanup returns has exactly the 16 template columns in
\* the template's order, other columns dropped; an input that lacks one of the
\* 16 makes final_cleanup raise.
C17_SchemaClosure ==
    (history # <<>> /\ history[1] = "cleanup") =>
        IF HasTemplateColumns(prev_df)
        THEN /\ history = <<"cleanup">>
             /\ columns = FINAL_SCHEMA
             /\ Len(columns) = 16
             /\ \A k \in 1..Len(taxon_df) : DOMAIN taxon_df[k] = names_of(columns)
        ELSE /\ history = <<"cleanup", "ColumnNotFoundError">>
             /\ taxon_df = prev_df

\* a table with an extra column, laid out in another order, was projected
C17_Witness ==
    /\ history = <<"cleanup">>
    /\ Len(taxon_df) = 2
    /\ "notes" \in DOMAIN prev_df[1]
    /\ "notes" \notin DOMAIN taxon_df[1]
    /\ columns[1] = "taxon_code"

\* C18: every non-null string of the returned table has no non-breaking space,
\* no two whitespace characters in a row and no whitespace at either end, and
\* is the input string with each whitespace run replaced by one space, trimmed.
C18_WhitespaceNormalized ==
    CleanupReturned =>
        \A k \in 1..Len(taxon_df) :
            /\ \A c \in names_of(FINAL_SCHEMA) \ {"code_manual"} :
                  LET v == taxon_df[k][c]
                  IN  v # NULL =>
                          /\ \A i \in 1..Len(v) : v[i] # NBSP
                          /\ \A i \in 1..(Len(v) - 1) :
                                ~(IsWhitespace(v[i]) /\ IsWhitespace(v[i + 1]))
                          /\ v # <<>> =>
                                ~IsWhitespace(v[1]) /\ ~IsWhitespace(v[Len(v)])
            /\ \E i \in 1..Len(prev_df) :
                  \A c \in names_of(FINAL_SCHEMA) \ {"code_manual"} :
                      taxon_df[k][c] = Normalized(prev_df[i][c])

\* a name with a non-breaking space and an author with a tab and a trailing
\* space came out normalized
C18_Witness ==
    /\ CleanupReturned
    /\ \E i \in 1..Len(prev_df) :
          /\ prev_df[i]["taxon_name"] = <<65, NBSP, 32, 98>>
          /\ prev_df[i]["taxon_author"] = <<76, 46, 9, 32, 102, 46, 32>>
    /\ \E k \in 1..Len(taxon_df) :
          /\ taxon_df[k]["taxon_name"] = <<65, 32, 98>>
          /\ taxon_df[k]["taxon_author"] = <<76, 46, 32, 102, 46>>

\* C19: final_cleanup removes exactly the rows that are null in every column
\* of its input, extra columns included, and keeps every other row.
C19_OnlyEmptyRowsDropped ==
    CleanupReturned =>
        /\ Len(taxon_df)
               = Cardinality({i \in 1..Len(prev_df) : ~EntirelyNull(prev_df[i])})
        /\ \A i \in 1..Len(prev_df) :
              ~EntirelyNull(prev_df[i]) =>
                  \E k \in 1..Len(taxon_df) : taxon_df[k] = NormalizedRow(prev_df[i])
        /\ \A k \in 1..Len(taxon_df) :
              \E i \in 1..Len(prev_df) :
                  ~EntirelyNull(prev_df[i]) /\ taxon_df[k] = NormalizedRow(prev_df[i])

\* of two rows null in all 16 template columns, given with a "notes" column
\* that is filled, both were kept
C19_KeptWitness ==
    /\ history = <<"cleanup">>
    /\ Len(prev_df) = 2
    /\ "notes" \in DOMAIN prev_df[1]
    /\ \A i \in 1..2 : \A c \in names_of(FINAL_SCHEMA) :
          IF c = "code_manual" THEN prev_df[i][c] = NULL_INT ELSE prev_df[i][c] = NULL
    /\ Len(taxon_df) = 2

\* C20: given all 16 template columns final_cleanup returns, whatever nulls or
\* repeated names or codes the table holds, and it neither removes nor repairs
\* them: each name and each code occurs as often as among the non-empty input
\* rows, and as many cells are null.
C20_NeverRaisesOnQuality ==
    (history # <<>> /\ history[1] = "cleanup" /\ HasTemplateColumns(prev_df)) =>
        LET kept == SelectSeq(prev_df, LAMBDA r : ~EntirelyNull(r))
        IN  /\ history = <<"cleanup">>
            /\ \A c \in {"taxon_name", "taxon_code"} :
                  \A i \in 1..Len(kept) :
                      Cardinality({k \in 1..Len(taxon_df) :
                                      taxon_df[k][c] = Normalized(kept[i][c])})
                        = Cardinality({j \in 1..Len(kept) :
                                          Normalized(kept[j][c]) = Normalized(kept[i][c])})
            /\ Cardinality(NullCells(taxon_df)) = Cardinality(NullCells(kept))

\* a table with a null code and two rows of one name and one code was returned
\* with all of them still there
C20_Witness ==
    /\ history = <<"cleanup">>
    /\ Len(taxon_df) = 2
    /\ taxon_df[1]["taxon_name"] = taxon_df[2]["taxon_name"]
    /\ taxon_df[1]["taxon_name"] # NULL
    /\ taxon_df[1]["taxon_code"] = NULL
    /\ taxon_df[2]["taxon_code"] = NULL
    /\ taxon_df[1]["taxon_author"] # taxon_df[2]["taxon_author"]

-----------------------------------------------------------------------------
(* Properties of the diagnostics *)

\* the nulls of one column of a table
NullsIn(df, c) ==
    Cardinality({k \in 1..Len(df) :
        IF c = "code_manual" THEN df[k][c] = NULL_INT ELSE df[k][c] = NULL})

\* C21: when the table final_cleanup returns holds a null, the console shows
\* the total number of nulls followed by a table giving, for each of the 16
\* columns, the number of nulls of that column.
C21_NullsReportedByColumn ==
    (history = <<"cleanup">> /\ NullCells(taxon_df) # {}) =>
        \E k \in 1..(Len(console) - 1) :
            /\ console[k].text = "WARNING: Null values detected in the dataset."
            /\ console[k].number = Cardinality(NullCells(taxon_df))
            /\ Len(console[k + 1].table) = 1
            /\ \A c \in names_of(FINAL_SCHEMA) :
                  console[k + 1].table[1][c] = NullsIn(taxon_df, c)

\* the k-th smallest member of a set of row numbers
KthOf(S, k) == CHOOSE i \in S : Cardinality({j \in S : j < i}) = k - 1

\* the names and codes of the rows S of a table, in table order
Listing(df, S) ==
    [k \in 1..Cardinality(S) |->
        [c \in {"taxon_name", "taxon_code"} |-> df[KthOf(S, k)][c]]]

\* the rows of a table that share column c with another row (two nulls count
\* as shared, as is_duplicated counts them)
Sharing(df, c) ==
    {i \in 1..Len(df) : \E j \in 1..Len(df) : j # i /\ df[j][c] = df[i][c]}

\* the console from position k on starts with a line of the given text and
\* number, followed by the given table
Shown(k, text, number, table) ==
    /\ k + 1 <= Len(console)
    /\ console[k] = [text |-> text, number |-> number, table |-> <<>>]
    /\ console[k + 1] = [text |-> "", number |-> 0, table |-> table]

\* the positions of the console that show a line of the given text
LinesOf(text) == {k \in 1..Len(console) : console[k].text = text}

\* C22: fix_duplicate_codes prints its duplicate-code report exactly when rows
\* of its output share a taxon_code, listing exactly those rows; final_cleanup
\* prints its duplicate warning exactly when rows of its output share a
\* taxon_code or a taxon_name, with their number and exactly those rows.
C22_ResidualDuplicatesReported ==
    /\ history = <<"generate", "fix">> =>
          LET involved == Sharing(taxon_df, "taxon_code")
              lines == LinesOf("Duplicate values found in 'taxon_code' column.")
          IN  /\ (lines # {}) <=> (involved # {})
              /\ \A k \in lines : Shown(k, console[k].text, 0, Listing(taxon_df, involved))
              /\ Cardinality(lines) <= 1
    /\ history = <<"generate", "fix", "cleanup">> =>
          LET involved == Sharing(taxon_df, "taxon_code") \cup Sharing(taxon_df, "taxon_name")
              lines == LinesOf("WARNING: rows with duplicate values detected.")
          IN  /\ (lines # {}) <=> (involved # {})
              /\ \A k \in lines :
                    Shown(k, console[k].text, Cardinality(involved),
                          Listing(taxon_df, involved))
              /\ Cardinality(lines) <= 1

\* two names of one long code were flagged; both stages reported the two rows,
\* which share the code MANUAL_REVIEW
C22_Witness ==
    /\ history = <<"generate", "fix", "cleanup">>
    /\ Len(taxon_df) = 2
    /\ taxon_df[1]["taxon_code"] = MANUAL_REVIEW
    /\ taxon_df[2]["taxon_code"] = MANUAL_REVIEW
    /\ LinesOf("Duplicate values found in 'taxon_code' column.") # {}
    /\ LinesOf("WARNING: rows with duplicate values detected.") # {}

-----------------------------------------------------------------------------
(* Properties of the whole pipeline *)

\* the descriptive columns the pipeline does not interpret
Passthrough == names_of(FINAL_SCHEMA) \ {"taxon_code", "code_manual", "taxon_name"}

\* generate_taxon_codes, fix_duplicate_codes and final_cleanup have returned
PipelineReturned == history = <<"generate", "fix", "cleanup">>

\* C23 as stated: every row of the final table holds, in each descriptive
\* column, exactly the value of the input row of the same name.
C23_PassthroughIdentical ==
    PipelineReturned =>
        \A k \in 1..Len(taxon_df) : \A i \in 1..Len(input_df) :
            input_df[i]["taxon_name"] = taxon_df[k]["taxon_name"] =>
                \A c \in Passthrough : taxon_df[k][c] = input_df[i][c]

\* C23: every descriptive column is in the final table, and each row of the
\* final table holds, in each of them, the whitespace-normalized value of the
\* input row it comes from; no input row is lost.
C23_PassthroughNormalized ==
    PipelineReturned =>
        /\ Len(taxon_df) = Len(input_df)
        /\ \A k \in 1..Len(taxon_df) :
              /\ Passthrough \subseteq DOMAIN taxon_df[k]
              /\ \E i \in 1..Len(input_df) :
                    /\ taxon_df[k]["taxon_name"] = Normalized(input_df[i]["taxon_name"])
                    /\ \A c \in Passthrough :
                          taxon_df[k][c] = Normalized(input_df[i][c])
        /\ \A i \in 1..Len(input_df) :
              \E k \in 1..Len(taxon_df) :
                  /\ taxon_df[k]["taxon_name"] = Normalized(input_df[i]["taxon_name"])
                  /\ \A c \in Passthrough :
                        taxon_df[k][c] = Normalized(input_df[i][c])

\* the row "Be" with the author "L." tab space "f." space came out with the
\* author "L. f." next to a row whose author was in good order
C23_Witness ==
    /\ PipelineReturned
    /\ Len(taxon_df) = 2
    /\ \E i \in 1..2 : input_df[i]["taxon_author"] = Untidy
    /\ \E k \in 1..2 : taxon_df[k]["taxon_author"] = <<76, 46, 32, 102, 46>>
    /\ \E k \in 1..2 : taxon_df[k]["taxon_author"] = Described

\* a clean batch: names non-null and pairwise distinct, generated codes
\* pairwise distinct, and a final table without nulls or repeated names or codes
CleanBatch ==
    /\ \A i \in 1..Len(input_df) : input_df[i]["taxon_name"] # NULL
    /\ \A i, j \in 1..Len(input_df) :
          i # j => /\ input_df[i]["taxon_name"] # input_df[j]["taxon_name"]
                   /\ taxon_code_of(input_df[i]["taxon_name"])
                          # taxon_code_of(input_df[j]["taxon_name"])
    /\ NullCells(taxon_df) = {}
    /\ Sharing(taxon_df, "taxon_code") = {}
    /\ Sharing(taxon_df, "taxon_name") = {}

\* the line fix_duplicate_codes prints when no row is flagged
AllClear == [text |-> "No infraspecies duplicates found.", number |-> 0, table |-> <<>>]

\* C24 as stated: the pipeline prints nothing on a clean batch.
C24_CleanBatchSilent ==
    (PipelineReturned /\ CleanBatch) => console = <<>>

\* C24: the pipeline prints the single line "No infraspecies duplicates
\* found." and nothing else exactly when the final table has no flagged row,
\* no null and no repeated name or code; a clean batch prints just that line.
C24_CleanBatchOneLine ==
    PipelineReturned =>
        /\ console = <<AllClear>>
              <=> /\ \A k \in 1..Len(taxon_df) : taxon_df[k]["taxon_code"] # MANUAL_REVIEW
                  /\ NullCells(taxon_df) = {}
                  /\ Sharing(taxon_df, "taxon_code") = {}
                  /\ Sharing(taxon_df, "taxon_name") = {}
        /\ CleanBatch => console = <<AllClear>>
        /\ console # <<>>

\* two names with distinct codes went through the three stages and the console
\* holds the one line
C24_Witness ==
    /\ PipelineReturned
    /\ CleanBatch
    /\ Len(taxon_df) = 2
    /\ console = <<AllClear>>

-----------------------------------------------------------------------------
(* Properties of add_missing_elements *)

\* add_missing_elements returned a table
ElementsAdded == history = <<"add_missing_elements">>

\* the rows of a table for a visit and an element
RowsFor(df, v, e) ==
    {k \in 1..Len(df) : df[k]["site_visit_code"] = v /\ df[k]["abiotic_element"] = e}

\* a cover is a recorded cover rounded to 2 decimals (in thousandths)
RoundedFrom(shown, recorded) ==
    /\ shown % 10 = 0
    /\ shown - recorded <= 5
    /\ recorded - shown <= 5

\* C25: for every visit of visit_codes and every element of abiotic_query the
\* table returned has a row; a pair with no row in abiotic_df has one row, of
\* cover 0; the rows of abiotic_df of a visit of visit_codes are all there
\* with their cover rounded to 2 decimals; no other row is returned.
C25_ElementsCompleted ==
    ElementsAdded =>
        LET visits   == {visit_codes[k] : k \in 1..Len(visit_codes)}
            elements == {abiotic_query[k]["ground_element"] :
                            k \in 1..Len(abiotic_query)}
        IN  /\ \A v \in visits : \A e \in elements :
                  /\ RowsFor(final_dataframe, v, e) # {}
                  /\ RowsFor(abiotic_df, v, e) = {} =>
                        /\ Cardinality(RowsFor(final_dataframe, v, e)) = 1
                        /\ \A k \in RowsFor(final_dataframe, v, e) :
                              final_dataframe[k]["abiotic_top_cover_percent"] = 0
            /\ \A i \in 1..Len(abiotic_df) :
                  LET v == abiotic_df[i]["site_visit_code"]
                      e == abiotic_df[i]["abiotic_element"]
                  IN  v \in visits =>
                          /\ Cardinality(RowsFor(final_dataframe, v, e))
                                 = Cardinality(RowsFor(abiotic_df, v, e))
                          /\ \E k \in RowsFor(final_dataframe, v, e) :
                                RoundedFrom(
                                    final_dataframe[k]["abiotic_top_cover_percent"],
                                    abiotic_df[i]["abiotic_top_cover_percent"])
            /\ \A k \in 1..Len(final_dataframe) :
                  /\ final_dataframe[k]["site_visit_code"] \in visits
                  /\ \/ final_dataframe[k]["abiotic_element"] \in elements
                     \/ RowsFor(abiotic_df, final_dataframe[k]["site_visit_code"],
                                final_dataframe[k]["abiotic_element"]) # {}

\* of two visits and two elements, one visit had one element recorded at
\* 12.344 and the other visit nothing: the table returned has four rows, the
\* recorded one at 12.34 and three at 0
C25_Witness ==
    /\ ElementsAdded
    /\ Len(visit_codes) = 2
    /\ Len(abiotic_query) = 2
    /\ Len(abiotic_df) = 1
    /\ abiotic_df[1]["abiotic_top_cover_percent"] = 12344
    /\ Len(final_dataframe) = 4
    /\ Cardinality({k \in 1..4 :
           final_dataframe[k]["abiotic_top_cover_percent"] = 0}) = 3
    /\ \E k \in 1..4 : final_dataframe[k]["abiotic_top_cover_percent"] = 12340

-----------------------------------------------------------------------------
(* Properties of 01_RemovePrivateData *)

\* the script has run to its end or stopped on an error
ScriptEnded == Failed \/ Len(history) = Len(table_list) + 3

\* the projects that were private when the script started
PrivateProjects ==
    {p.project_code : p \in {q \in input_df.project : q.private = "TRUE"}}

\* the site visits that belonged to a private project when the script started
PrivateVisits ==
    {v.site_visit_code :
        v \in {w \in input_df.site_visit : w.project_code \in PrivateProjects}}

\* C26: once 01_RemovePrivateData has ended, whatever the database held, no
\* project is private, no site established by a private project remains, and
\* no row of a site visit of a private project remains in site_visit or in a
\* data table.
C26_FullyPublic ==
    ScriptEnded =>
        /\ \A p \in project : p.private # "TRUE"
        /\ \A s \in site : s.establishing_project_code \notin PrivateProjects
        /\ \A t \in names_of(table_list) :
              \A r \in data_tables[t] : r.site_visit_code \notin PrivateVisits

-----------------------------------------------------------------------------
(* Properties of the row order and of the frame *)

\* a string comes before another in code-point order
Precedes(a, b) ==
    \E k \in 1..(Min(Len(a), Len(b)) + 1) :
        /\ \A j \in 1..(k - 1) : a[j] = b[j]
        /\ \/ k = Len(a) + 1 /\ k <= Len(b)
           \/ k <= Len(a) /\ k <= Len(b) /\ a[k] < b[k]

\* C27: the rows fix_duplicate_codes returns are in ascending order of
\* taxon_name, and the rows final_cleanup returns are in ascending order of
\* their names, which are the whitespace-normalized names of its input.
C27_RowsSortedByName ==
    /\ FixReturned =>
          \A a, b \in 1..Len(taxon_df) :
              a < b => Precedes(taxon_df[a]["taxon_name"], taxon_df[b]["taxon_name"])
    /\ CleanupReturned =>
          /\ \A a, b \in 1..Len(taxon_df) :
                a < b => \/ taxon_df[a]["taxon_name"] = taxon_df[b]["taxon_name"]
                         \/ Precedes(taxon_df[a]["taxon_name"],
                                     taxon_df[b]["taxon_name"])
          /\ \A k \in 1..Len(taxon_df) :
                \E i \in 1..Len(prev_df) :
                    taxon_df[k]["taxon_name"] = Normalized(prev_df[i]["taxon_name"])

\* two names that fix_duplicate_codes put in one order came out of
\* final_cleanup in the other order, because normalization changed how they
\* compare ("Betula  nana" with two spaces before "Betula na")
C27_Witness ==
    /\ PipelineReturned
    /\ Len(taxon_df) = 2
    /\ taxon_df[1]["taxon_name"] # taxon_df[2]["taxon_name"]
    /\ taxon_df[1]["taxon_name"] = Normalized(prev_df[2]["taxon_name"])
    /\ taxon_df[2]["taxon_name"] = Normalized(prev_df[1]["taxon_name"])
    /\ Precedes(prev_df[1]["taxon_name"], prev_df[2]["taxon_name"])

\* the reference table was extended and fix_duplicate_codes has returned once
UpdateResolved == history = <<"generate", "extend", "fix">>

\* a new row of the extended table has the code of the reference row
SharedWithNew(row) ==
    \E j \in 1..Len(prev_df) :
        /\ prev_df[j]["taxon_name"] # row["taxon_name"]
        /\ prev_df[j]["taxon_code"] = row["taxon_code"]

\* C28 as stated: every row of the reference table keeps the code it had.
C28_ReferenceCodesKept ==
    UpdateResolved =>
        \A r \in 1..Len(taxonomy_original) :
            RowOf(taxon_df, taxonomy_original[r]["taxon_name"])["taxon_code"]
                = taxonomy_original[r]["taxon_code"]

\* C28: a row of the reference table keeps its code exactly when no newly
\* added row has the same code; when one has, the reference row is numbered
\* with the new rows (code of at most 6 characters) or flagged with them.
C28_ReferenceCodesKeptUnlessShared ==
    UpdateResolved =>
        \A r \in 1..Len(taxonomy_original) :
            LET old == taxonomy_original[r]
                now == RowOf(taxon_df, old["taxon_name"])
            IN  IF ~SharedWithNew(old)
                THEN now["taxon_code"] = old["taxon_code"]
                ELSE /\ now["taxon_code"] # old["taxon_code"]
                     /\ IF Len(old["taxon_code"]) <= 6
                        THEN /\ Len(now["taxon_code"]) = Len(old["taxon_code"]) + 1
                             /\ SubSeq(now["taxon_code"], 1, Len(old["taxon_code"]))
                                    = old["taxon_code"]
                        ELSE now["taxon_code"] = MANUAL_REVIEW

\* "Betula nana" had the code betnan; "Betulas nana" was added and the
\* reference row now has betnan1, while "Betula" kept betula
C28_Witness ==
    /\ UpdateResolved
    /\ Len(taxonomy_original) = 2
    /\ \E r \in 1..2 :
          /\ taxonomy_original[r]["taxon_code"] = <<98, 101, 116, 110, 97, 110>>
          /\ RowOf(taxon_df, taxonomy_original[r]["taxon_name"])["taxon_code"]
                 = <<98, 101, 116, 110, 97, 110, 49>>
    /\ \E r \in 1..2 :
          /\ taxonomy_original[r]["taxon_code"] = <<98, 101, 116, 117, 108, 97>>
          /\ RowOf(taxon_df, taxonomy_original[r]["taxon_name"])["taxon_code"]
                 = <<98, 101, 116, 117, 108, 97>>

\* C29: after fix_duplicate_codes, code_manual is 1 on the rows whose code is
\* MANUAL_REVIEW and 0 on every other row, whatever it was before.
C29_CodeManualRecomputed ==
    (FixReturned /\ "extend" \in names_of(history)) =>
        \A i \in 1..Len(taxon_df) :
            taxon_df[i]["code_manual"]
                = IF taxon_df[i]["taxon_code"] = MANUAL_REVIEW THEN 1 ELSE 0

\* the reference row "Aa" came in with its own code and code_manual = 1 and
\* went out with the same code and code_manual = 0
C29_Witness ==
    /\ UpdateResolved
    /\ \E i \in 1..Len(prev_df) :
          /\ prev_df[i]["code_manual"] = 1
          /\ prev_df[i]["taxon_code"] = <<97, 97, 120, 120>>
          /\ RowOf(taxon_df, prev_df[i]["taxon_name"])["code_manual"] = 0
          /\ RowOf(taxon_df, prev_df[i]["taxon_name"])["taxon_code"]
                 = <<97, 97, 120, 120>>

\* C30: generate_taxon_codes returns the rows of its input in their order,
\* changed in taxon_code only; fix_duplicate_codes returns one row for each
\* name of its input, changed in taxon_code and code_manual only.
C30_OnlyCodeColumnsChange ==
    /\ history = <<"generate">> =>
          /\ prev_df = input_df
          /\ Len(taxon_df) = Len(prev_df)
          /\ \A i \in 1..Len(taxon_df) :
                /\ DOMAIN taxon_df[i] = DOMAIN prev_df[i]
                /\ \A c \in DOMAIN prev_df[i] \ {"taxon_code"} :
                      taxon_df[i][c] = prev_df[i][c]
    /\ UpdateResolved =>
          /\ Len(taxon_df) = Len(prev_df)
          /\ \A i \in 1..Len(prev_df) :
                \E k \in 1..Len(taxon_df) :
                    /\ DOMAIN taxon_df[k] = DOMAIN prev_df[i]
                    /\ \A c \in DOMAIN prev_df[i] \ {"taxon_code", "code_manual"} :
                          taxon_df[k][c] = prev_df[i][c]

\* a sheet row that came with the code "zz" typed in was coded "be", its other
\* columns as they were
C30_Witness ==
    /\ history = <<"generate">>
    /\ \E i \in 1..Len(taxon_df) :
          /\ prev_df[i]["taxon_code"] = <<122, 122>>
          /\ taxon_df[i]["taxon_code"] = <<98, 101>>
          /\ taxon_df[i]["taxon_name"] = <<66, 101>>

====
